---- MODULE Spec2Model ----
(***************************************************************************)
(* Model of gocb: the connection registry of Cluster (cluster.go) and the  *)
(* option encoders SearchOptions.toMap and AnalyticsOptions.toMap.         *)
(* The registry is Cluster.Bucket, takeClusterClient, getClient,           *)
(* randomClient, clusterOrRandomClient and Close, as interleaved steps of  *)
(* concurrent callers over the shared fields connections, clusterClient,   *)
(* and the mutexes connectionsLock and clusterLock. The encoders are pure  *)
(* functions, applied to each value of a bounded set of options.           *)
(***************************************************************************)
EXTENDS Integers, Sequences, FiniteSets, TLC

\* Number of Cluster.Bucket calls issued against one Cluster.
NumBucketCalls == 3
\* Number of distinct values b.hash() takes (distinct connection identities).
NumIdentities == 2
\* Number of Bucket calls that run concurrently (caller goroutines).
MaxInFlight == 2
\* Bucket calls issued while Close may run
RaceCalls == 2

Calls == 1..NumBucketCalls
Hashes == 1..NumIdentities

\* The client built by Connect is client 0; the client built by newClient in
\* Bucket call p is client p.
ClusterCli == 0
Clients == {ClusterCli} \cup Calls
NoClient == -1
NoProc == 0
Router == NumBucketCalls + 1
Closer == NumBucketCalls + 2

\* error values: <<>> is nil, <<op, client>> is the error of a failed call
NoErr == <<>>
OpErr(op, c) == <<op, c>>
ErrNotConnected == <<"not connected to cluster">>
ErrNoGCCCP == <<"cluster-level operations not supported due to cluster version">>
BootstrapOps == {"buildConfig", "connect", "selectBucket"}
IsBootstrapErrOf(e, c) == \E op \in BootstrapOps : e = OpErr(op, c)

VARIABLES
  connections,      \* Cluster.connections: hash -> client (NoClient: no entry)
  clusterClient,    \* Cluster.clusterClient
  connectionsLock,  \* Cluster.connectionsLock: [writer, readers]
  clusterLock,      \* Cluster.clusterLock: holder
  supportsGCCCP,    \* what a client's supportsGCCCP() reports
  connected,        \* client -> connected()
  bootstrapErr,     \* client -> getBootstrapError()
  closed,           \* client -> close() was called on it
  buildConfigCalls, \* client -> number of buildConfig() calls on it
  connectCalls,     \* client -> number of connect() calls on it
  pc,               \* Bucket call -> position in Cluster.Bucket
  hash,             \* Bucket call -> b.hash()
  cli,              \* Bucket call -> local cli
  taken,            \* Bucket call -> takeClusterClient's return: "pending", "floating", "nil"
  err,              \* Bucket call -> local err (nil again once the call has returned)
  handle,           \* Bucket call -> client cached in the returned Bucket
  rpc,              \* position of the clusterOrRandomClient call
  rcli,             \* clusterOrRandomClient: local cli
  visited,          \* randomClient: keys the range loop has produced
  firstError,       \* randomClient: local firstError
  scanStart,        \* randomClient: registry facts when the read lock was taken
  result,           \* what clusterOrRandomClient returned
  cpc,              \* position of the Close call
  overallErr,       \* Close: local overallErr
  lateKeys,         \* keys inserted while Close ranges over the map
  closeLog,         \* close() calls made by Close, in order: <<client, err>>
  regAtClose,       \* clients reachable from the Cluster when Close began
  closeResult,      \* what Close returned
  searchOpts,       \* the SearchOptions value toMap is called on
  searchResult,     \* what SearchOptions.toMap returned
  analyticsCall,    \* the AnalyticsOptions value and the arguments of its toMap call
  analyticsResult,  \* what AnalyticsOptions.toMap returned
  coreErr,          \* the error maybeEnhanceCoreErr is called on
  enhancedErr       \* what maybeEnhanceCoreErr returned

sharedVars == <<connections, clusterClient, connectionsLock, clusterLock>>
clientVars == <<supportsGCCCP, connected, bootstrapErr, closed, buildConfigCalls,
                connectCalls>>
bucketVars == <<pc, hash, cli, taken, err, handle>>
routerVars == <<rpc, rcli, visited, firstError, scanStart, result>>
closeVars == <<cpc, overallErr, lateKeys, closeLog, regAtClose, closeResult>>
clusterVars == <<sharedVars, clientVars, bucketVars, routerVars, closeVars>>
encoderVars == <<searchOpts, searchResult, analyticsCall, analyticsResult>>
enhancerVars == <<coreErr, enhancedErr>>
vars == <<clusterVars, encoderVars, enhancerVars>>

NoResult == [cli |-> NoClient, err |-> NoErr, via |-> "none"]
NoScan == [anyConnected |-> FALSE, anyBootstrapErr |-> FALSE, empty |-> TRUE]

\* clients built by newClient in Bucket calls (call p builds client p)
Created == {p \in Calls : cli[p] = p}
Registered == {connections[h] : h \in Hashes} \ {NoClient}
RegisteredKeys == {h \in Hashes : connections[h] # NoClient}

\* State after a successful Connect: the cluster client has had buildConfig and
\* connect run on it and sits in the floating slot; the registry is empty.
InitCluster ==
  /\ connections = [h \in Hashes |-> NoClient]
  /\ clusterClient = ClusterCli
  /\ connectionsLock = [writer |-> NoProc, readers |-> {}]
  /\ clusterLock = NoProc
  /\ supportsGCCCP \in BOOLEAN
  /\ connected = [c \in Clients |-> c = ClusterCli]
  /\ bootstrapErr = [c \in Clients |-> NoErr]
  /\ closed = [c \in Clients |-> FALSE]
  /\ buildConfigCalls = [c \in Clients |-> IF c = ClusterCli THEN 1 ELSE 0]
  /\ connectCalls = [c \in Clients |-> IF c = ClusterCli THEN 1 ELSE 0]
  /\ pc = [p \in Calls |-> "idle"]
  /\ hash = [p \in Calls |-> 1]
  /\ cli = [p \in Calls |-> NoClient]
  /\ taken = [p \in Calls |-> "pending"]
  /\ err = [p \in Calls |-> NoErr]
  /\ handle = [p \in Calls |-> NoClient]
  /\ rpc = "idle"
  /\ rcli = NoClient
  /\ visited = {}
  /\ firstError = NoErr
  /\ scanStart = NoScan
  /\ result = NoResult
  /\ cpc = "idle"
  /\ overallErr = NoErr
  /\ lateKeys = {}
  /\ closeLog = <<>>
  /\ regAtClose = {}
  /\ closeResult = NoErr

----------------------------------------------------------------------------
\* The client interface, as the cluster uses it: setBootstrapError stores the
\* error that getBootstrapError returns, a successful connect makes connected()
\* true, close is attempted whatever it returns.

clientSetBootstrapError(c, e) == [bootstrapErr EXCEPT ![c] = IF e = NoErr THEN @ ELSE e]
clientConnect(c, ok) == [connected EXCEPT ![c] = IF ok THEN TRUE ELSE @]
clientClose(c) == [closed EXCEPT ![c] = TRUE]

----------------------------------------------------------------------------
\* sync.RWMutex connectionsLock. A Lock ... Unlock section of Bucket is one
\* step, taken when no reader and no writer holds the lock; randomClient holds
\* the read lock across the steps of its range loop.

CanLock == connectionsLock.writer = NoProc /\ connectionsLock.readers = {}
CanRLock == connectionsLock.writer = NoProc
RLocked(p) == [connectionsLock EXCEPT !.readers = @ \cup {p}]
RUnlocked(p) == [connectionsLock EXCEPT !.readers = @ \ {p}]

----------------------------------------------------------------------------
\* Cluster.Bucket

\* Calls are numbered in the order they are issued, and identities in the order
\* they are first used.
InFlight == {q \in Calls : pc[q] \notin {"idle", "done"}}
UsedHashes == {hash[q] : q \in {q \in Calls : pc[q] # "idle"}}
NextHashes == {h \in Hashes : \A g \in Hashes : g < h => g \in UsedHashes}

\* a take that hands the client out but leaves it in the slot
takeClusterClientKeep(p) ==
  /\ pc[p] = "idle"
  /\ UNCHANGED <<encoderVars, enhancerVars>>
  /\ IF p = 1 THEN TRUE ELSE pc[p - 1] # "idle"
  /\ Cardinality(InFlight) < MaxInFlight
  /\ CanLock
  /\ \E h \in NextHashes : hash' = [hash EXCEPT ![p] = h]
  /\ cli' = [cli EXCEPT ![p] = clusterClient]
  /\ taken' = [taken EXCEPT ![p] = IF clusterClient # NoClient THEN "floating" ELSE "nil"]
  /\ pc' = [pc EXCEPT ![p] = IF clusterClient # NoClient THEN "selectBucket" ELSE "getClient"]
  /\ UNCHANGED <<sharedVars, clientVars, err, handle, routerVars, closeVars>>

\* a take that always reports an empty slot
takeClusterClientNever(p) ==
  /\ pc[p] = "idle"
  /\ UNCHANGED <<encoderVars, enhancerVars>>
  /\ IF p = 1 THEN TRUE ELSE pc[p - 1] # "idle"
  /\ Cardinality(InFlight) < MaxInFlight
  /\ CanLock
  /\ \E h \in NextHashes : hash' = [hash EXCEPT ![p] = h]
  /\ cli' = [cli EXCEPT ![p] = NoClient]
  /\ taken' = [taken EXCEPT ![p] = "nil"]
  /\ pc' = [pc EXCEPT ![p] = "getClient"]
  /\ UNCHANGED <<sharedVars, clientVars, err, handle, routerVars, closeVars>>

\* b := newBucket(...); cli := c.takeClusterClient()
takeClusterClient(p) ==
  /\ pc[p] = "idle"
  /\ UNCHANGED <<encoderVars, enhancerVars>>
  /\ IF p = 1 THEN TRUE ELSE pc[p - 1] # "idle"
  /\ Cardinality(InFlight) < MaxInFlight
  /\ CanLock
  /\ \E h \in NextHashes : hash' = [hash EXCEPT ![p] = h]
  /\ IF clusterClient # NoClient
       THEN /\ cli' = [cli EXCEPT ![p] = clusterClient]
            /\ taken' = [taken EXCEPT ![p] = "floating"]
            /\ clusterClient' = NoClient
            /\ pc' = [pc EXCEPT ![p] = "selectBucket"]
       ELSE /\ cli' = [cli EXCEPT ![p] = NoClient]
            /\ taken' = [taken EXCEPT ![p] = "nil"]
            /\ clusterClient' = clusterClient
            /\ pc' = [pc EXCEPT ![p] = "getClient"]
  /\ UNCHANGED <<connections, connectionsLock, clusterLock, clientVars, err, handle,
                 routerVars, closeVars>>

\* cli = c.getClient(&b.sb.clientStateBlock)
getClient(p) ==
  /\ pc[p] = "getClient"
  /\ UNCHANGED <<encoderVars, enhancerVars>>
  /\ CanLock
  /\ IF connections[hash[p]] # NoClient
       THEN cli' = [cli EXCEPT ![p] = connections[hash[p]]]
       ELSE cli' = [cli EXCEPT ![p] = p]
  /\ pc' = [pc EXCEPT ![p] = "connect"]
  /\ UNCHANGED <<sharedVars, supportsGCCCP, connected, bootstrapErr, closed,
                 buildConfigCalls, connectCalls, hash, taken, err, handle,
                 routerVars, closeVars>>

\* outcomes of buildConfig followed by connect
ConnectOutcomes == {"ok", "buildConfig", "connect"}

\* a bootstrap whose failure is not recorded on the client
buildConfigAndConnectDropErr(p) ==
  /\ pc[p] = "connect"
  /\ UNCHANGED <<encoderVars, enhancerVars>>
  /\ \E o \in ConnectOutcomes :
       /\ buildConfigCalls' = [buildConfigCalls EXCEPT ![cli[p]] = @ + 1]
       /\ connectCalls' = [connectCalls EXCEPT ![cli[p]] = IF o = "buildConfig" THEN @ ELSE @ + 1]
       /\ connected' = clientConnect(cli[p], o = "ok")
       /\ err' = [err EXCEPT ![p] = IF o = "ok" THEN NoErr ELSE OpErr(o, cli[p])]
  /\ pc' = [pc EXCEPT ![p] = "insert"]
  /\ UNCHANGED <<sharedVars, supportsGCCCP, bootstrapErr, closed, hash, cli,
                 taken, handle, routerVars, closeVars>>

\* err := cli.buildConfig(); if err == nil { err = cli.connect() };
\* cli.setBootstrapError(err) when either failed
buildConfigAndConnect(p) ==
  /\ pc[p] = "connect"
  /\ UNCHANGED <<encoderVars, enhancerVars>>
  /\ \E o \in ConnectOutcomes :
       /\ buildConfigCalls' = [buildConfigCalls EXCEPT ![cli[p]] = @ + 1]
       /\ connectCalls' = [connectCalls EXCEPT ![cli[p]] = IF o = "buildConfig" THEN @ ELSE @ + 1]
       /\ connected' = clientConnect(cli[p], o = "ok")
       /\ err' = [err EXCEPT ![p] = IF o = "ok" THEN NoErr ELSE OpErr(o, cli[p])]
       /\ bootstrapErr' = clientSetBootstrapError(cli[p],
                             IF o = "ok" THEN NoErr ELSE OpErr(o, cli[p]))
  /\ pc' = [pc EXCEPT ![p] = "insert"]
  /\ UNCHANGED <<sharedVars, supportsGCCCP, closed, hash, cli, taken, handle,
                 routerVars, closeVars>>

\* err := cli.selectBucket(bucketName), and cli.setBootstrapError(err) when it fails
selectBucket(p) ==
  /\ pc[p] = "selectBucket"
  /\ UNCHANGED <<encoderVars, enhancerVars>>
  /\ \E ok \in BOOLEAN :
       /\ err' = [err EXCEPT ![p] = IF ok THEN NoErr ELSE OpErr("selectBucket", cli[p])]
       /\ bootstrapErr' = clientSetBootstrapError(cli[p],
                             IF ok THEN NoErr ELSE OpErr("selectBucket", cli[p]))
  /\ pc' = [pc EXCEPT ![p] = "insert"]
  /\ UNCHANGED <<sharedVars, supportsGCCCP, connected, closed, buildConfigCalls,
                 connectCalls, hash, cli, taken, handle, routerVars, closeVars>>

\* Lock; c.connections[b.hash()] = cli; Unlock
BucketInsert(p) ==
  /\ pc[p] = "insert"
  /\ UNCHANGED <<encoderVars, enhancerVars>>
  /\ CanLock
  /\ connections' = [connections EXCEPT ![hash[p]] = cli[p]]
  /\ lateKeys' = IF cpc = "range" THEN lateKeys \cup {hash[p]} ELSE lateKeys
  /\ pc' = [pc EXCEPT ![p] = "cache"]
  /\ UNCHANGED <<clusterClient, connectionsLock, clusterLock, clientVars, hash, cli,
                 taken, err, handle, routerVars, cpc, overallErr, closeLog,
                 regAtClose, closeResult>>

\* b.cacheClient(cli); return b
cacheClient(p) ==
  /\ pc[p] = "cache"
  /\ UNCHANGED <<encoderVars, enhancerVars>>
  /\ handle' = [handle EXCEPT ![p] = cli[p]]
  /\ err' = [err EXCEPT ![p] = NoErr]
  /\ pc' = [pc EXCEPT ![p] = "done"]
  /\ UNCHANGED <<sharedVars, clientVars, hash, cli, taken, routerVars, closeVars>>

----------------------------------------------------------------------------
\* Cluster.clusterOrRandomClient and Cluster.randomClient

Ok(c, via) == [cli |-> c, err |-> NoErr, via |-> via]
Fail(e, via) == [cli |-> NoClient, err |-> e, via |-> via]

\* RLock; if c.clusterClient == nil { RUnlock; randomClient() }
\*        else { cli = c.clusterClient; RUnlock }
clusterOrRandomClient ==
  /\ rpc = "idle"
  /\ UNCHANGED <<encoderVars, enhancerVars>>
  /\ CanRLock
  /\ IF clusterClient = NoClient
       THEN rcli' = rcli /\ rpc' = "randomClient"
       ELSE rcli' = clusterClient /\ rpc' = "supportsGCCCP"
  /\ UNCHANGED <<sharedVars, clientVars, bucketVars, visited, firstError, scanStart,
                 result, closeVars>>

\* a router that hands the cluster client out without asking for its capability
clusterOrRandomClientNoCheck ==
  /\ rpc = "supportsGCCCP"
  /\ UNCHANGED <<encoderVars, enhancerVars>>
  /\ result' = Ok(rcli, "cluster")
  /\ rpc' = "done"
  /\ rcli' = NoClient
  /\ UNCHANGED <<sharedVars, clientVars, bucketVars, visited, firstError, scanStart,
                 closeVars>>

\* if !cli.supportsGCCCP() { return nil, errors.New(...) }; return cli, nil
clusterOrRandomClientCheck ==
  /\ rpc = "supportsGCCCP"
  /\ UNCHANGED <<encoderVars, enhancerVars>>
  /\ result' = IF supportsGCCCP THEN Ok(rcli, "cluster") ELSE Fail(ErrNoGCCCP, "cluster")
  /\ rpc' = "done"
  /\ rcli' = NoClient
  /\ UNCHANGED <<sharedVars, clientVars, bucketVars, visited, firstError, scanStart,
                 closeVars>>

\* RUnlock and the returns of randomClient, which clusterOrRandomClient passes on
randomClientReturn(rc, fe) ==
  /\ connectionsLock' = RUnlocked(Router)
  /\ result' = IF rc = NoClient
                 THEN IF fe = NoErr THEN Fail(ErrNotConnected, "random")
                                    ELSE Fail(fe, "random")
                 ELSE Ok(rc, "random")
  /\ rpc' = "done"
  /\ visited' = {}
  /\ firstError' = NoErr
  /\ scanStart' = NoScan

\* RLock; if len(c.connections) == 0 { RUnlock; return nil, errors.New("not connected to cluster") }
randomClientRLock ==
  /\ rpc = "randomClient"
  /\ UNCHANGED <<encoderVars, enhancerVars>>
  /\ CanRLock
  /\ IF RegisteredKeys = {}
       THEN randomClientReturn(NoClient, NoErr)
       ELSE /\ connectionsLock' = RLocked(Router)
            /\ scanStart' = [anyConnected |-> \E c \in Registered : connected[c],
                             anyBootstrapErr |-> \E c \in Registered : bootstrapErr[c] # NoErr,
                             empty |-> FALSE]
            /\ rpc' = "range"
            /\ UNCHANGED <<visited, firstError, result>>
  /\ UNCHANGED <<connections, clusterClient, clusterLock, clientVars, bucketVars,
                 rcli, closeVars>>

\* a scan that takes the first entry without asking whether it is connected
randomClientRangeAny ==
  /\ rpc = "range"
  /\ UNCHANGED <<encoderVars, enhancerVars>>
  /\ IF RegisteredKeys \ visited = {}
       THEN randomClientReturn(NoClient, firstError)
       ELSE \E k \in RegisteredKeys \ visited : randomClientReturn(connections[k], firstError)
  /\ UNCHANGED <<connections, clusterClient, clusterLock, clientVars, bucketVars,
                 rcli, closeVars>>

\* a scan that never reads the bootstrap error
randomClientRangeNoErr ==
  /\ rpc = "range"
  /\ UNCHANGED <<encoderVars, enhancerVars>>
  /\ IF RegisteredKeys \ visited = {}
       THEN randomClientReturn(NoClient, firstError)
       ELSE \E k \in RegisteredKeys \ visited :
              IF connected[connections[k]]
                THEN randomClientReturn(connections[k], firstError)
                ELSE /\ visited' = visited \cup {k}
                     /\ UNCHANGED <<firstError, connectionsLock, rpc, scanStart, result>>
  /\ UNCHANGED <<connections, clusterClient, clusterLock, clientVars, bucketVars,
                 rcli, closeVars>>

\* one iteration of: for _, c := range c.connections { ... }, in any order; the
\* loop ends at the first connected entry or when no entry is left
randomClientRange ==
  /\ rpc = "range"
  /\ UNCHANGED <<encoderVars, enhancerVars>>
  /\ IF RegisteredKeys \ visited = {}
       THEN randomClientReturn(NoClient, firstError)
       ELSE \E k \in RegisteredKeys \ visited :
              IF connected[connections[k]]
                THEN randomClientReturn(connections[k], firstError)
                ELSE /\ firstError' = IF firstError = NoErr
                                        THEN bootstrapErr[connections[k]]
                                        ELSE firstError
                     /\ visited' = visited \cup {k}
                     /\ UNCHANGED <<connectionsLock, rpc, scanStart, result>>
  /\ UNCHANGED <<connections, clusterClient, clusterLock, clientVars, bucketVars,
                 rcli, closeVars>>

----------------------------------------------------------------------------
\* Cluster.Close

FloatingSet == IF clusterClient = NoClient THEN {} ELSE {clusterClient}
Quiescent == \A p \in Calls : pc[p] \in {"idle", "done"}

\* c.clusterLock.Lock()
CloseStart ==
  /\ cpc = "idle"
  /\ UNCHANGED <<encoderVars, enhancerVars>>
  /\ clusterLock = NoProc
  /\ clusterLock' = Closer
  /\ regAtClose' = Registered \cup FloatingSet
  /\ cpc' = "range"
  /\ UNCHANGED <<connections, clusterClient, connectionsLock, clientVars, bucketVars,
                 routerVars, overallErr, lateKeys, closeLog, closeResult>>

\* a loop body that keeps the first error
CloseRangeFirstErr ==
  /\ cpc = "range"
  /\ UNCHANGED <<encoderVars, enhancerVars>>
  /\ \E k \in RegisteredKeys, ok \in BOOLEAN :
       LET c == connections[k]
           e == IF ok THEN NoErr ELSE OpErr("close", c)
       IN /\ closed' = clientClose(c)
          /\ closeLog' = Append(closeLog, <<c, e>>)
          /\ overallErr' = IF ok \/ overallErr # NoErr THEN overallErr ELSE e
          /\ connections' = [connections EXCEPT ![k] = NoClient]
          /\ lateKeys' = lateKeys \ {k}
  /\ UNCHANGED <<clusterClient, connectionsLock, clusterLock, supportsGCCCP, connected,
                 bootstrapErr, buildConfigCalls, connectCalls, bucketVars,
                 routerVars, cpc, regAtClose, closeResult>>

\* a loop body that leaves the loop at the first close failure
CloseRangeFailFast ==
  /\ cpc = "range"
  /\ UNCHANGED <<encoderVars, enhancerVars>>
  /\ \E k \in RegisteredKeys, ok \in BOOLEAN :
       LET c == connections[k]
           e == IF ok THEN NoErr ELSE OpErr("close", c)
       IN /\ closed' = clientClose(c)
          /\ closeLog' = Append(closeLog, <<c, e>>)
          /\ overallErr' = IF ok THEN overallErr ELSE e
          /\ connections' = [connections EXCEPT ![k] = NoClient]
          /\ lateKeys' = lateKeys \ {k}
          /\ cpc' = IF ok THEN cpc ELSE "unlock"
  /\ UNCHANGED <<clusterClient, connectionsLock, clusterLock, supportsGCCCP, connected,
                 bootstrapErr, buildConfigCalls, connectCalls, bucketVars,
                 routerVars, regAtClose, closeResult>>

\* one iteration of: for key, conn := range c.connections { conn.close(); delete(...) }
CloseRange ==
  /\ cpc = "range"
  /\ UNCHANGED <<encoderVars, enhancerVars>>
  /\ \E k \in RegisteredKeys, ok \in BOOLEAN :
       LET c == connections[k]
           e == IF ok THEN NoErr ELSE OpErr("close", c)
       IN /\ closed' = clientClose(c)
          /\ closeLog' = Append(closeLog, <<c, e>>)
          /\ overallErr' = IF ok THEN overallErr ELSE e
          /\ connections' = [connections EXCEPT ![k] = NoClient]
          /\ lateKeys' = lateKeys \ {k}
  /\ UNCHANGED <<clusterClient, connectionsLock, clusterLock, supportsGCCCP, connected,
                 bootstrapErr, buildConfigCalls, connectCalls, bucketVars,
                 routerVars, cpc, regAtClose, closeResult>>

\* The range loop ends once every key that was in the map when it began has been
\* produced; a key inserted meanwhile is produced or skipped.
CloseRangeEnd ==
  /\ cpc = "range"
  /\ UNCHANGED <<encoderVars, enhancerVars>>
  /\ RegisteredKeys \ lateKeys = {}
  /\ cpc' = "cc_check"
  /\ UNCHANGED <<sharedVars, clientVars, bucketVars, routerVars, overallErr, lateKeys,
                 closeLog, regAtClose, closeResult>>

\* if c.clusterClient != nil
CloseClusterClientCheck ==
  /\ cpc = "cc_check"
  /\ UNCHANGED <<encoderVars, enhancerVars>>
  /\ cpc' = IF clusterClient # NoClient THEN "cc_close" ELSE "unlock"
  /\ UNCHANGED <<sharedVars, clientVars, bucketVars, routerVars, overallErr, lateKeys,
                 closeLog, regAtClose, closeResult>>

\* err := c.clusterClient.close(): the field is read again, and a nil there panics
CloseClusterClient ==
  /\ cpc = "cc_close"
  /\ UNCHANGED <<encoderVars, enhancerVars>>
  /\ IF clusterClient = NoClient
       THEN /\ cpc' = "panic"
            /\ UNCHANGED <<closed, closeLog, overallErr>>
       ELSE \E ok \in BOOLEAN :
              LET e == IF ok THEN NoErr ELSE OpErr("close", clusterClient)
              IN /\ closed' = clientClose(clusterClient)
                 /\ closeLog' = Append(closeLog, <<clusterClient, e>>)
                 /\ overallErr' = IF ok THEN overallErr ELSE e
                 /\ cpc' = "unlock"
  /\ UNCHANGED <<sharedVars, supportsGCCCP, connected, bootstrapErr, buildConfigCalls,
                 connectCalls, bucketVars, routerVars, lateKeys, regAtClose,
                 closeResult>>

\* c.clusterLock.Unlock(); return overallErr
CloseReturn ==
  /\ cpc = "unlock"
  /\ UNCHANGED <<encoderVars, enhancerVars>>
  /\ clusterLock' = NoProc
  /\ closeResult' = overallErr
  /\ cpc' = "done"
  /\ UNCHANGED <<connections, clusterClient, connectionsLock, clientVars, bucketVars,
                 routerVars, overallErr, lateKeys, closeLog, regAtClose>>

----------------------------------------------------------------------------
\* Values of map[string]interface{} and optional (nil-able) values

\* a nil pointer, slice or map is Nil, a non-nil one is Some(x)
Nil == <<>>
Some(x) == <<x>>

\* interface{} values carry their dynamic type
IntV(n) == <<"int", n>>
BoolV(b) == <<"bool", b>>
StrV(s) == <<"string", s>>
ListV(q) == <<"list", q>>
MapV(m) == <<"map", m>>

\* make(map[string]interface{})
EmptyMap == [k \in {} |-> Nil]
\* m[k] = v
Put(m, k, v) == [x \in DOMAIN m \cup {k} |-> IF x = k THEN v ELSE m[x]]

\* a merge in which a key already computed keeps its value
MergeRawKeep(data, raw) ==
  IF raw = Nil THEN data
  ELSE [k \in DOMAIN data \cup DOMAIN raw[1] |->
          IF k \in DOMAIN data THEN data[k] ELSE raw[1][k]]

\* if raw != nil { for k, v := range raw { data[k] = v } }: the keys of a map
\* are distinct, so the order of the range does not show in the result
MergeRaw(data, raw) ==
  IF raw = Nil THEN data
  ELSE [k \in DOMAIN data \cup DOMAIN raw[1] |->
          IF k \in DOMAIN raw[1] THEN raw[1][k] ELSE data[k]]

\* the (map, error) pair a toMap returns
Returned(m) == [done |-> TRUE, data |-> Some(m), err |-> NoErr]
Failure(e) == [done |-> TRUE, data |-> Nil, err |-> e]
NotCalled == [done |-> FALSE, data |-> Nil, err |-> NoErr]

\* makeInvalidArgumentsError(message): an error of the invalid-arguments kind
makeInvalidArgumentsError(message) == <<"invalid arguments", message>>
\* errors.New(message): an error that carries its message only
errorsNew(message) == <<"error", message>>

----------------------------------------------------------------------------
\* SearchOptions.toMap

searchScanConsistencyNotSet == 0
SearchScanConsistencyNotBounded == 1

\* MutationState.toSearchMutationState(): the vectors of the token
toSearchMutationState(ms) == <<"vectors", ms>>

\* Values of the fields of SearchOptions the encoder is run on
SearchScanConsistencies == {searchScanConsistencyNotSet, SearchScanConsistencyNotBounded, 2}
SearchLimits == {0, 5}
SearchSkips == {0, 3}
SearchHighlights == {Nil, Some([Style |-> "html", Fields |-> Nil])}
SearchFieldLists == {Nil, Some(<<"title">>)}
SearchSorts == {Nil, Some(<<"_score">>)}
SearchFacetMaps == {Nil, Some(EmptyMap), Some([k \in {"type"} |-> <<"facet", "term">>])}
SearchMutationStates == {Nil, Some(<<"token">>)}
SearchRaws ==
  {Nil, Some(EmptyMap),
   Some([k \in {"size"} |-> IntV(999)]),
   Some([k \in {"size", "timeout"} |-> IF k = "size" THEN IntV(5) ELSE IntV(75)]),
   Some([k \in {"highlight", "explain"} |-> IF k = "explain" THEN StrV("yes") ELSE BoolV(FALSE)]),
   Some([k \in {"ctl"} |-> StrV("raw ctl")])}

SearchInputs ==
  [ScanConsistency : SearchScanConsistencies, Limit : SearchLimits, Skip : SearchSkips,
   Explain : BOOLEAN, Highlight : SearchHighlights, Fields : SearchFieldLists,
   Sort : SearchSorts, Facets : SearchFacetMaps, ConsistentWith : SearchMutationStates,
   Raw : SearchRaws]

\* the zero value of SearchOptions
SearchZero ==
  [ScanConsistency |-> searchScanConsistencyNotSet, Limit |-> 0, Skip |-> 0,
   Explain |-> FALSE, Highlight |-> Nil, Fields |-> Nil, Sort |-> Nil, Facets |-> Nil,
   ConsistentWith |-> Nil, Raw |-> Nil]

\* fixed keys that are written only for a non-zero option
SearchFixedKeysOmitEmpty(opts) ==
  LET d1 == IF opts.Limit # 0 THEN Put(EmptyMap, "size", IntV(opts.Limit)) ELSE EmptyMap
      d2 == IF opts.Skip # 0 THEN Put(d1, "from", IntV(opts.Skip)) ELSE d1
      d3 == IF opts.Explain THEN Put(d2, "explain", BoolV(opts.Explain)) ELSE d2
      d4 == IF opts.Fields # Nil THEN Put(d3, "fields", ListV(opts.Fields)) ELSE d3
  IN IF opts.Sort # Nil THEN Put(d4, "sort", ListV(opts.Sort)) ELSE d4

\* data["size"] = opts.Limit ... data["sort"] = opts.Sort
SearchFixedKeys(opts) ==
  LET d1 == Put(EmptyMap, "size", IntV(opts.Limit))
      d2 == Put(d1, "from", IntV(opts.Skip))
      d3 == Put(d2, "explain", BoolV(opts.Explain))
      d4 == Put(d3, "fields", ListV(opts.Fields))
  IN Put(d4, "sort", ListV(opts.Sort))

\* if opts.Highlight != nil { ... data["highlight"] = highlight }
SearchHighlight(data, opts) ==
  IF opts.Highlight # Nil
    THEN Put(data, "highlight",
             MapV(Put(Put(EmptyMap, "style", StrV(opts.Highlight[1].Style)),
                     "fields", ListV(opts.Highlight[1].Fields))))
    ELSE data

\* if opts.Facets != nil { ... data["facets"] = facets }
SearchFacets(data, opts) ==
  IF opts.Facets # Nil
    THEN Put(data, "facets", MapV([k \in DOMAIN opts.Facets[1] |-> opts.Facets[1][k]]))
    ELSE data

\* a validation that accepts every combination
SearchExclusiveNever(opts) == FALSE

\* opts.ScanConsistency != 0 && opts.ConsistentWith != nil
SearchExclusive(opts) == opts.ScanConsistency # 0 /\ opts.ConsistentWith # Nil

\* the local ctl when toMap reaches its return: it is built from ScanConsistency
\* and ConsistentWith and is not stored in data
SearchCtl(opts) ==
  LET c1 == IF opts.ScanConsistency # searchScanConsistencyNotSet
              THEN Some(Put(EmptyMap, "consistency",
                            MapV(Put(EmptyMap, "level", StrV("not_bounded")))))
              ELSE Nil
  IN IF opts.ConsistentWith # Nil
       THEN Some(Put(IF c1 = Nil THEN EmptyMap ELSE c1[1], "consistency",
                     MapV(Put(Put(EmptyMap, "level", StrV("at_plus")),
                             "vectors", toSearchMutationState(opts.ConsistentWith[1])))))
       ELSE c1

SearchToMap(opts) ==
  LET data == SearchFacets(SearchHighlight(SearchFixedKeys(opts), opts), opts)
  IN IF SearchExclusive(opts)
       THEN Failure(makeInvalidArgumentsError(
                      "ScanConsistency and ConsistentWith must be used exclusively"))
     ELSE IF /\ opts.ScanConsistency # searchScanConsistencyNotSet
             /\ opts.ScanConsistency # SearchScanConsistencyNotBounded
       THEN Failure(makeInvalidArgumentsError("unexpected consistency option"))
     ELSE Returned(MergeRaw(data, opts.Raw))

\* a call of opts.toMap()
SearchOptionsToMap ==
  /\ ~searchResult.done
  /\ searchResult' = SearchToMap(searchOpts)
  /\ UNCHANGED <<clusterVars, searchOpts, analyticsCall, analyticsResult, enhancerVars>>

----------------------------------------------------------------------------
\* AnalyticsOptions.toMap
\*
\* The keys of execOpts are strings the code takes prefixes of and concatenates:
\* a string is the sequence of its pieces, "$a" being <<"$", "a">> and
\* "statement" being <<"statement">>; the empty string is <<>>.

\* strings.HasPrefix(s, prefix)
HasPrefix(s, prefix) ==
  Len(s) >= Len(prefix) /\ SubSeq(s, 1, Len(prefix)) = prefix

\* a prefixing that does not look at the key
NamedKeyAlways(key) == <<"$">> \o key

\* if !strings.HasPrefix(key, "$") { key = "$" + key }
NamedKey(key) == IF ~HasPrefix(key, <<"$">>) THEN <<"$">> \o key ELSE key

\* decimal digits of a natural number
Digit(n) ==
  CASE n = 0 -> "0" [] n = 1 -> "1" [] n = 2 -> "2" [] n = 3 -> "3" [] n = 4 -> "4"
    [] n = 5 -> "5" [] n = 6 -> "6" [] n = 7 -> "7" [] n = 8 -> "8" [] n = 9 -> "9"
RECURSIVE Dec(_)
Dec(n) == IF n < 10 THEN <<Digit(n)>> ELSE Dec(n \div 10) \o <<Digit(n % 10)>>

\* time.Duration.String() of a duration of secs whole seconds, below one hour:
\* "15s", "1m15s"
DurationString(secs) ==
  IF secs < 60 THEN Dec(secs) \o <<"s">>
  ELSE Dec(secs \div 60) \o <<"m">> \o Dec(secs % 60) \o <<"s">>

\* Values of the fields of AnalyticsOptions, and of the statement, the encoder
\* is run on
AnalyticsTimeouts == {0, 75}
AnalyticsContextIDs == {<<>>, <<"ctx-1">>}
AnalyticsPositionals == {Nil, Some(<<>>), Some(<<IntV(7)>>)}
AnalyticsNamedKeys == {<<"a">>, <<"$", "a">>}
AnalyticsNamedValues == {IntV(1), IntV(2)}
AnalyticsNamedMaps ==
  {Nil} \cup {Some(m) : m \in UNION {[S -> AnalyticsNamedValues] : S \in SUBSET AnalyticsNamedKeys}}
AnalyticsRaws ==
  {Nil, Some(EmptyMap),
   Some([k \in {<<"readonly">>} |-> BoolV(FALSE)]),
   Some([k \in {<<"statement">>} |-> StrV(<<"select 2">>)]),
   Some([k \in {<<"priority">>, <<"client_context_id">>} |->
           IF k = <<"priority">> THEN IntV(5) ELSE StrV(<<"raw-id">>)]),
   Some([k \in {<<"args">>} |-> ListV(Some(<<IntV(8)>>))]),
   Some([k \in {<<"$", "a">>} |-> IntV(9)]),
   Some([k \in {<<"pretty">>} |-> BoolV(TRUE)])}
AnalyticsStatements == {<<"select 1">>}
\* values uuid.New() may return
UUIDs == {"uuid-1", "uuid-2"}

AnalyticsInputs ==
  [ServerSideTimeout : AnalyticsTimeouts, ClientContextID : AnalyticsContextIDs,
   Raw : AnalyticsRaws, Priority : BOOLEAN, PositionalParameters : AnalyticsPositionals,
   NamedParameters : AnalyticsNamedMaps, ReadOnly : BOOLEAN]

\* the orders in which a range over the map m may produce its keys
RangeOrders(m) ==
  {q \in UNION {[1..n -> DOMAIN m] : n \in {Cardinality(DOMAIN m)}} :
     \A i, j \in DOMAIN q : q[i] = q[j] => i = j}

\* a toMap call: the options, the statement, what uuid.New() returns if called
\* and the order of the range over NamedParameters
AnalyticsCalls ==
  {c \in [opts : AnalyticsInputs, statement : AnalyticsStatements, uuid : UUIDs,
          order : UNION {[1..n -> AnalyticsNamedKeys] : n \in 0..Cardinality(AnalyticsNamedKeys)}] :
     c.order \in (IF c.opts.NamedParameters = Nil THEN {<<>>}
                  ELSE RangeOrders(c.opts.NamedParameters[1]))}

\* the zero value of AnalyticsOptions
AnalyticsZero ==
  [opts |-> [ServerSideTimeout |-> 0, ClientContextID |-> <<>>, Raw |-> Nil,
             Priority |-> FALSE, PositionalParameters |-> Nil, NamedParameters |-> Nil,
             ReadOnly |-> FALSE],
   statement |-> <<"select 1">>, uuid |-> "uuid-1", order |-> <<>>]

\* for key, value := range opts.NamedParameters { ...; execOpts[key] = value },
\* the keys being produced in the given order
RECURSIVE PutNamed(_, _, _)
PutNamed(execOpts, named, order) ==
  IF order = <<>> THEN execOpts
  ELSE PutNamed(Put(execOpts, NamedKey(Head(order)), named[Head(order)]),
                named, Tail(order))

AnalyticsToMap(opts, statement, uuid, order) ==
  LET e1 == Put(EmptyMap, <<"statement">>, StrV(statement))
      e2 == IF opts.ServerSideTimeout # 0
              THEN Put(e1, <<"timeout">>, StrV(DurationString(opts.ServerSideTimeout)))
              ELSE e1
      e3 == IF opts.ClientContextID = <<>>
              THEN Put(e2, <<"client_context_id">>, <<"uuid", uuid>>)
              ELSE Put(e2, <<"client_context_id">>, StrV(opts.ClientContextID))
      e4 == IF opts.Priority THEN Put(e3, <<"priority">>, IntV(-1)) ELSE e3
      e5 == IF opts.PositionalParameters # Nil
              THEN Put(e4, <<"args">>, ListV(opts.PositionalParameters))
              ELSE e4
      e6 == IF opts.NamedParameters # Nil
              THEN PutNamed(e5, opts.NamedParameters[1], order)
              ELSE e5
      e7 == MergeRaw(e6, opts.Raw)
      e8 == IF opts.ReadOnly THEN Put(e7, <<"readonly">>, BoolV(TRUE)) ELSE e7
  IN IF opts.PositionalParameters # Nil /\ opts.NamedParameters # Nil
       THEN Failure(errorsNew("Positional and named parameters must be used exclusively"))
       ELSE Returned(e8)

\* a call of opts.toMap(statement)
AnalyticsOptionsToMap ==
  /\ ~analyticsResult.done
  /\ analyticsResult' = AnalyticsToMap(analyticsCall.opts, analyticsCall.statement,
                                       analyticsCall.uuid, analyticsCall.order)
  /\ UNCHANGED <<clusterVars, searchOpts, searchResult, analyticsCall, enhancerVars>>

----------------------------------------------------------------------------
\* maybeEnhanceCoreErr
\*
\* An error value is a record; its field type is its dynamic type, which the
\* type assertions err.(gocbcore.KeyValueError) ... test.

\* Bound on the RetryAttempts of a transport error and on the length of its
\* RetryReasons and Errors lists
MaxRetryAttempts == 2
MaxReasons == 2

\* translateCoreRetryReasons: each transport retry reason becomes the domain
\* retry reason of the same name, in the same order
translateCoreRetryReasons(reasons) ==
  [i \in DOMAIN reasons |-> <<"gocb.RetryReason", reasons[i][2]>>]
\* translateCoreViewErrorDesc, translateCoreQueryErrorDesc and
\* translateCoreAnalyticsErrorDesc: each sub-error becomes the domain sub-error
\* with the same code and message
translateCoreErrorDesc(kind, descs) ==
  [i \in DOMAIN descs |-> <<kind, descs[i][2], descs[i][3]>>]

\* Values the transport layer returns
CoreRetryReasons ==
  UNION {[1..n -> {<<"gocbcore.RetryReason", "SOCKET_NOT_AVAILABLE">>,
                   <<"gocbcore.RetryReason", "KV_LOCKED">>}] : n \in 0..MaxReasons}
CoreErrorDescs ==
  UNION {[1..n -> {<<"gocbcore.ErrorDesc", 3000, "syntax error">>}] : n \in 0..MaxReasons}
CoreInnerErrors == {<<"error", "timeout">>, <<"error", "document not found">>}

CoreKeyValueErrors ==
  [type : {"gocbcore.KeyValueError"}, InnerError : CoreInnerErrors, StatusCode : {1, 134},
   BucketName : {"bucket"}, ScopeName : {"scope"}, CollectionName : {"collection"},
   CollectionID : {8}, ErrorName : {"KEY_ENOENT"}, ErrorDescription : {"Not Found"},
   Opaque : {77}, Context : {"ctx"}, Ref : {"ref"},
   RetryReasons : CoreRetryReasons, RetryAttempts : 0..MaxRetryAttempts]
CoreViewErrors ==
  [type : {"gocbcore.ViewError"}, InnerError : CoreInnerErrors,
   DesignDocumentName : {"ddoc"}, ViewName : {"view"}, Errors : CoreErrorDescs,
   Endpoint : {"http://node:8092"},
   RetryReasons : CoreRetryReasons, RetryAttempts : 0..MaxRetryAttempts]
CoreN1QLErrors ==
  [type : {"gocbcore.N1QLError"}, InnerError : CoreInnerErrors,
   Statement : {"select 1"}, ClientContextID : {"ctx-1"}, Errors : CoreErrorDescs,
   Endpoint : {"http://node:8093"},
   RetryReasons : CoreRetryReasons, RetryAttempts : 0..MaxRetryAttempts]
CoreAnalyticsErrors ==
  [type : {"gocbcore.AnalyticsError"}, InnerError : CoreInnerErrors,
   Statement : {"select 2"}, ClientContextID : {"ctx-2"}, Errors : CoreErrorDescs,
   Endpoint : {"http://node:8095"},
   RetryReasons : CoreRetryReasons, RetryAttempts : 0..MaxRetryAttempts]
CoreHTTPErrors ==
  [type : {"gocbcore.HTTPError"}, InnerError : CoreInnerErrors,
   UniqueID : {"id-1"}, Endpoint : {"http://node:8091"},
   RetryReasons : CoreRetryReasons, RetryAttempts : 0..MaxRetryAttempts]
\* errors of no recognized type: nil, a plain error, a search error, and a
\* pointer to a key-value error (the assertions are on the value types)
OtherErrors ==
  [type : {"nil", "*errors.fundamental", "gocbcore.SearchError", "*gocbcore.KeyValueError"},
   InnerError : CoreInnerErrors,
   RetryReasons : CoreRetryReasons, RetryAttempts : 0..MaxRetryAttempts]
CoreErrors ==
  CoreKeyValueErrors \cup CoreViewErrors \cup CoreN1QLErrors \cup CoreAnalyticsErrors
    \cup CoreHTTPErrors \cup OtherErrors

NilError == [type |-> "nil", InnerError |-> <<"error", "timeout">>,
             RetryReasons |-> <<>>, RetryAttempts |-> 0]

\* return KeyValueError{...}
enhanceKeyValueError(kvErr) ==
  [type |-> "gocb.KeyValueError",
   InnerError |-> kvErr.InnerError,
   StatusCode |-> kvErr.StatusCode,
   BucketName |-> kvErr.BucketName,
   ScopeName |-> kvErr.ScopeName,
   CollectionName |-> kvErr.CollectionName,
   CollectionID |-> kvErr.CollectionID,
   ErrorName |-> kvErr.ErrorName,
   ErrorDescription |-> kvErr.ErrorDescription,
   Opaque |-> kvErr.Opaque,
   Context |-> kvErr.Context,
   Ref |-> kvErr.Ref,
   RetryReasons |-> translateCoreRetryReasons(kvErr.RetryReasons),
   RetryAttempts |-> kvErr.RetryAttempts]

\* return ViewError{...}
enhanceViewError(viewErr) ==
  [type |-> "gocb.ViewError",
   InnerError |-> viewErr.InnerError,
   DesignDocumentName |-> viewErr.DesignDocumentName,
   ViewName |-> viewErr.ViewName,
   Errors |-> translateCoreErrorDesc("gocb.ViewErrorDesc", viewErr.Errors),
   Endpoint |-> viewErr.Endpoint,
   RetryReasons |-> translateCoreRetryReasons(viewErr.RetryReasons),
   RetryAttempts |-> viewErr.RetryAttempts]

\* return QueryError{...}
enhanceQueryError(queryErr) ==
  [type |-> "gocb.QueryError",
   InnerError |-> queryErr.InnerError,
   Statement |-> queryErr.Statement,
   ClientContextID |-> queryErr.ClientContextID,
   Errors |-> translateCoreErrorDesc("gocb.QueryErrorDesc", queryErr.Errors),
   Endpoint |-> queryErr.Endpoint,
   RetryReasons |-> translateCoreRetryReasons(queryErr.RetryReasons),
   RetryAttempts |-> queryErr.RetryAttempts]

\* return AnalyticsError{...}
enhanceAnalyticsError(analyticsErr) ==
  [type |-> "gocb.AnalyticsError",
   InnerError |-> analyticsErr.InnerError,
   Statement |-> analyticsErr.Statement,
   ClientContextID |-> analyticsErr.ClientContextID,
   Errors |-> translateCoreErrorDesc("gocb.AnalyticsErrorDesc", analyticsErr.Errors),
   Endpoint |-> analyticsErr.Endpoint,
   RetryReasons |-> translateCoreRetryReasons(analyticsErr.RetryReasons),
   RetryAttempts |-> analyticsErr.RetryAttempts]

\* an HTTPError that does not carry the retry metadata over
enhanceHTTPErrorNoRetry(httpErr) ==
  [type |-> "gocb.HTTPError",
   InnerError |-> httpErr.InnerError,
   UniqueID |-> httpErr.UniqueID,
   Endpoint |-> httpErr.Endpoint,
   RetryReasons |-> <<>>,
   RetryAttempts |-> 0]

\* return HTTPError{...}
enhanceHTTPError(httpErr) ==
  [type |-> "gocb.HTTPError",
   InnerError |-> httpErr.InnerError,
   UniqueID |-> httpErr.UniqueID,
   Endpoint |-> httpErr.Endpoint,
   RetryReasons |-> translateCoreRetryReasons(httpErr.RetryReasons),
   RetryAttempts |-> httpErr.RetryAttempts]

\* an enhancer that wraps every error it does not recognize as an HTTPError
maybeEnhanceCoreErrWrapAll(coreError) ==
  IF coreError.type = "gocbcore.KeyValueError" THEN enhanceKeyValueError(coreError)
  ELSE IF coreError.type = "gocbcore.ViewError" THEN enhanceViewError(coreError)
  ELSE IF coreError.type = "gocbcore.N1QLError" THEN enhanceQueryError(coreError)
  ELSE IF coreError.type = "gocbcore.AnalyticsError" THEN enhanceAnalyticsError(coreError)
  ELSE [type |-> "gocb.HTTPError", InnerError |-> coreError.InnerError, UniqueID |-> "",
        Endpoint |-> "", RetryReasons |-> translateCoreRetryReasons(coreError.RetryReasons),
        RetryAttempts |-> coreError.RetryAttempts]

\* the chain of type assertions, and return err when none matches
maybeEnhanceCoreErr(coreError) ==
  IF coreError.type = "gocbcore.KeyValueError" THEN enhanceKeyValueError(coreError)
  ELSE IF coreError.type = "gocbcore.ViewError" THEN enhanceViewError(coreError)
  ELSE IF coreError.type = "gocbcore.N1QLError" THEN enhanceQueryError(coreError)
  ELSE IF coreError.type = "gocbcore.AnalyticsError" THEN enhanceAnalyticsError(coreError)
  ELSE IF coreError.type = "gocbcore.HTTPError" THEN enhanceHTTPError(coreError)
  ELSE coreError

\* a call of maybeEnhanceCoreErr(err)
MaybeEnhanceCoreErrCall ==
  /\ ~enhancedErr.done
  /\ enhancedErr' = [done |-> TRUE, err |-> maybeEnhanceCoreErr(coreErr)]
  /\ UNCHANGED <<clusterVars, encoderVars, coreErr>>

----------------------------------------------------------------------------
\* Specifications

\* The state before any call: the cluster as Connect left it, no encoder called
Init ==
  /\ InitCluster
  /\ searchOpts = SearchZero
  /\ searchResult = NotCalled
  /\ analyticsCall = AnalyticsZero
  /\ analyticsResult = NotCalled
  /\ coreErr = NilError
  /\ enhancedErr = [done |-> FALSE, err |-> NilError]


\* every interleaving of Bucket calls, one routing call and one Close call
Next ==
  \/ \E p \in Calls : takeClusterClient(p)
  \/ \E p \in Calls : getClient(p)
  \/ \E p \in Calls : buildConfigAndConnect(p)
  \/ \E p \in Calls : selectBucket(p)
  \/ \E p \in Calls : BucketInsert(p)
  \/ \E p \in Calls : cacheClient(p)
  \/ clusterOrRandomClient
  \/ clusterOrRandomClientCheck
  \/ randomClientRLock
  \/ randomClientRange
  \/ CloseStart
  \/ CloseRange
  \/ CloseRangeEnd
  \/ CloseClusterClientCheck
  \/ CloseClusterClient
  \/ CloseReturn
  \/ SearchOptionsToMap
  \/ AnalyticsOptionsToMap
  \/ MaybeEnhanceCoreErrCall

Spec == Init /\ [][Next]_vars

\* Bucket calls alone
NextBucket ==
  \/ \E p \in Calls : takeClusterClient(p)
  \/ \E p \in Calls : getClient(p)
  \/ \E p \in Calls : buildConfigAndConnect(p)
  \/ \E p \in Calls : selectBucket(p)
  \/ \E p \in Calls : BucketInsert(p)
  \/ \E p \in Calls : cacheClient(p)

SpecBucket == Init /\ [][NextBucket]_vars

\* the cluster while it is open: Bucket calls and one routing call issued at
\* any moment, up to the return of the routing call; no Close
NextOpen ==
  \/ \E p \in Calls : rpc # "done" /\ takeClusterClient(p)
  \/ \E p \in Calls : rpc # "done" /\ getClient(p)
  \/ \E p \in Calls : rpc # "done" /\ buildConfigAndConnect(p)
  \/ \E p \in Calls : rpc # "done" /\ selectBucket(p)
  \/ \E p \in Calls : rpc # "done" /\ BucketInsert(p)
  \/ \E p \in Calls : rpc # "done" /\ cacheClient(p)
  \/ clusterOrRandomClient
  \/ clusterOrRandomClientCheck
  \/ randomClientRLock
  \/ randomClientRange

SpecOpen == Init /\ [][NextOpen]_vars

\* shutdown: Close is called once, after the Bucket calls issued have returned,
\* and no Bucket call is issued after it
NextShutdown ==
  \/ \E p \in Calls : cpc = "idle" /\ takeClusterClient(p)
  \/ \E p \in Calls : getClient(p)
  \/ \E p \in Calls : buildConfigAndConnect(p)
  \/ \E p \in Calls : selectBucket(p)
  \/ \E p \in Calls : BucketInsert(p)
  \/ \E p \in Calls : cacheClient(p)
  \/ Quiescent /\ CloseStart
  \/ CloseRange
  \/ CloseRangeEnd
  \/ CloseClusterClientCheck
  \/ CloseClusterClient
  \/ CloseReturn

SpecShutdown == Init /\ [][NextShutdown]_vars

\* shutdown and after: as NextShutdown, and once Close has returned a routing
\* call and further Bucket calls may be made
NextClosed ==
  \/ \E p \in Calls : cpc \in {"idle", "done"} /\ takeClusterClient(p)
  \/ \E p \in Calls : getClient(p)
  \/ \E p \in Calls : buildConfigAndConnect(p)
  \/ \E p \in Calls : selectBucket(p)
  \/ \E p \in Calls : BucketInsert(p)
  \/ \E p \in Calls : cacheClient(p)
  \/ Quiescent /\ CloseStart
  \/ CloseRange
  \/ CloseRangeEnd
  \/ CloseClusterClientCheck
  \/ CloseClusterClient
  \/ CloseReturn
  \/ cpc = "done" /\ clusterOrRandomClient
  \/ clusterOrRandomClientCheck
  \/ randomClientRLock
  \/ randomClientRange

SpecClosed == Init /\ [][NextClosed]_vars

\* Close called at any moment while RaceCalls Bucket calls and one routing call
\* are in progress, up to the return (or the panic) of Close; Bucket steps stop
\* once the routing call has returned
CloseRunning == cpc \notin {"done", "panic"}
RaceOpen == CloseRunning /\ rpc # "done"

NextRace ==
  \/ \E p \in Calls : p <= RaceCalls /\ RaceOpen /\ takeClusterClient(p)
  \/ \E p \in Calls : RaceOpen /\ getClient(p)
  \/ \E p \in Calls : RaceOpen /\ buildConfigAndConnect(p)
  \/ \E p \in Calls : RaceOpen /\ selectBucket(p)
  \/ \E p \in Calls : RaceOpen /\ BucketInsert(p)
  \/ \E p \in Calls : RaceOpen /\ cacheClient(p)
  \/ CloseRunning /\ clusterOrRandomClient
  \/ CloseRunning /\ clusterOrRandomClientCheck
  \/ CloseRunning /\ randomClientRLock
  \/ CloseRunning /\ randomClientRange
  \/ CloseStart
  \/ CloseRange
  \/ CloseRangeEnd
  \/ CloseClusterClientCheck
  \/ CloseClusterClient
  \/ CloseReturn

SpecRace == Init /\ [][NextRace]_vars

\* SearchOptions.toMap called on each value of SearchInputs
InitSearch ==
  /\ InitCluster
  /\ searchOpts \in SearchInputs
  /\ searchResult = NotCalled
  /\ analyticsCall = AnalyticsZero
  /\ analyticsResult = NotCalled
  /\ coreErr = NilError
  /\ enhancedErr = [done |-> FALSE, err |-> NilError]

NextSearch == SearchOptionsToMap

SpecSearch == InitSearch /\ [][NextSearch]_vars

\* AnalyticsOptions.toMap called on each value of AnalyticsCalls
InitAnalytics ==
  /\ InitCluster
  /\ searchOpts = SearchZero
  /\ searchResult = NotCalled
  /\ analyticsCall \in AnalyticsCalls
  /\ analyticsResult = NotCalled
  /\ coreErr = NilError
  /\ enhancedErr = [done |-> FALSE, err |-> NilError]

NextAnalytics == AnalyticsOptionsToMap

SpecAnalytics == InitAnalytics /\ [][NextAnalytics]_vars

\* maybeEnhanceCoreErr called on each value of CoreErrors
InitEnhance ==
  /\ InitCluster
  /\ searchOpts = SearchZero
  /\ searchResult = NotCalled
  /\ analyticsCall = AnalyticsZero
  /\ analyticsResult = NotCalled
  /\ coreErr \in CoreErrors
  /\ enhancedErr = [done |-> FALSE, err |-> NilError]

NextEnhance == MaybeEnhanceCoreErrCall

SpecEnhance == InitEnhance /\ [][NextEnhance]_vars

----------------------------------------------------------------------------
\* Claims about Cluster.Bucket

Claimers == {p \in Calls : taken[p] = "floating"}

\* C1: the floating cluster client is handed off at most once: as soon as any
\* takeClusterClient has returned, exactly one call has received the client
\* Connect created and the slot is empty for good; every other call received
\* nil, and a call for another identity ends with a connection that is not the
\* cluster client, stored in the registry under its own identity.
C1_AtMostOnceHandOff ==
  /\ Cardinality(Claimers) <= 1
  /\ clusterClient \in {ClusterCli, NoClient}
  /\ (\E p \in Calls : taken[p] # "pending") =>
       (Cardinality(Claimers) = 1 /\ clusterClient = NoClient)
  /\ \A p \in Claimers : cli[p] = ClusterCli
  /\ \A p \in Calls : (taken[p] = "nil" /\ pc[p] = "getClient") => cli[p] = NoClient
  /\ \A p \in Calls, q \in Claimers :
       (taken[p] = "nil" /\ hash[p] # hash[q] /\ pc[p] \in {"cache", "done"}) =>
         /\ cli[p] \in Created
         /\ connections[hash[p]] \in Created
         /\ connections[hash[p]] # cli[q]

C1_Witness ==
  \E p \in Calls, q \in Claimers :
    /\ taken[p] = "nil" /\ hash[p] # hash[q]
    /\ pc[p] = "done" /\ pc[q] = "done"
    /\ handle[q] = ClusterCli /\ handle[p] = p /\ connections[hash[p]] = p

\* C2: a connection is created at most once per identity: no two Bucket calls
\* with the same identity hash each construct a new client.
C2_OneClientPerIdentity ==
  \A p \in Created, q \in Created : hash[p] = hash[q] => p = q

\* C3: at the step where the Bucket handle receives the connection (cacheClient),
\* the registry holds that same connection under the bucket's identity hash.
C3_RegisteredWhenCached ==
  \A p \in Calls : pc[p] = "cache" => connections[hash[p]] = cli[p]

\* C4: a bootstrap failure never discards the connection: a failed selectBucket,
\* buildConfig or connect is recorded as the bootstrap error of the connection,
\* the call goes on (no retry) to insert that connection into the registry under
\* its identity, and returns a Bucket handle holding it.
C4_BootstrapFailureKeepsConnection ==
  [][\A p \in Calls :
       /\ (pc[p] \in {"connect", "selectBucket"} /\ pc'[p] # pc[p]) =>
            /\ pc'[p] = "insert"
            /\ cli'[p] = cli[p]
            /\ err'[p] # NoErr => bootstrapErr'[cli[p]] = err'[p]
       /\ (pc[p] = "insert" /\ pc'[p] # pc[p]) =>
            (pc'[p] = "cache" /\ connections'[hash[p]] = cli[p])
       /\ (pc[p] = "cache" /\ pc'[p] # pc[p]) =>
            (pc'[p] = "done" /\ handle'[p] = cli[p] /\ cli[p] # NoClient)]_vars

C4_Witness ==
  \E p \in Calls :
    /\ pc[p] = "done"
    /\ handle[p] = p
    /\ ~connected[p]
    /\ IsBootstrapErrOf(bootstrapErr[p], p)
    /\ connections[hash[p]] = p

\* C5: buildConfig and connect are invoked at most once on any connection.
C5_ConnectAtMostOnce ==
  \A c \in Clients : buildConfigCalls[c] <= 1 /\ connectCalls[c] <= 1

----------------------------------------------------------------------------
\* Claims about clusterOrRandomClient and randomClient

ConnectedRegistered == {c \in Registered : connected[c]}

\* C6: router step 1: a clusterOrRandomClient call that finds the floating
\* cluster client unclaimed goes on to ask it for supportsGCCCP and returns it if
\* supported, and fails with the "cluster-level operations not supported" error
\* otherwise, without reading the registry, whatever the registry holds by then.
C6_FloatingClientFirst ==
  [][/\ (rpc = "idle" /\ rpc' # rpc) =>
          IF clusterClient # NoClient
            THEN rpc' = "supportsGCCCP" /\ rcli' = clusterClient
            ELSE rpc' = "randomClient"
     /\ (rpc = "supportsGCCCP" /\ rpc' # rpc) =>
          /\ rpc' = "done"
          /\ result'.via = "cluster"
          /\ supportsGCCCP => (result'.cli = ClusterCli /\ result'.err = NoErr)
          /\ ~supportsGCCCP => (result'.cli = NoClient /\ result'.err = ErrNoGCCCP)]_vars

C6_Witness ==
  /\ rpc = "done"
  /\ result = Fail(ErrNoGCCCP, "cluster")
  /\ ConnectedRegistered # {}

\* C7: router step 2: with the floating client claimed, a randomClient scan that
\* began with a connected entry in the registry succeeds, a scan that succeeds
\* returns an entry that is registered and connected, and when exactly one
\* entry is connected it is the one returned, in every iteration order.
C7_ReturnsConnectedEntry ==
  [][(rpc = "range" /\ rpc' = "done") =>
       /\ clusterClient = NoClient
       /\ result'.via = "random"
       /\ scanStart.anyConnected => result'.err = NoErr
       /\ result'.err = NoErr => result'.cli \in ConnectedRegistered
       /\ \A c \in Clients :
            (scanStart.anyConnected /\ ConnectedRegistered = {c}) => result'.cli = c]_vars

C7_Witness ==
  /\ rpc = "done"
  /\ result.via = "random" /\ result.err = NoErr
  /\ ConnectedRegistered = {result.cli}
  /\ \E c \in Registered : ~connected[c] /\ bootstrapErr[c] # NoErr

\* C8: router step 3: with the floating client claimed and no registered
\* connection connected, randomClient fails; the error is a bootstrap error of a
\* registered connection whenever an entry had one when the scan began, and it
\* is "not connected to cluster" only for an empty registry or when no entry
\* had a bootstrap error, in every iteration order.
C8_SurfacesBootstrapError ==
  [][/\ (rpc = "randomClient" /\ rpc' = "done") =>
          (Registered = {} /\ result' = Fail(ErrNotConnected, "random"))
     /\ (rpc = "range" /\ rpc' = "done") =>
          /\ ConnectedRegistered = {} => (result'.err # NoErr /\ result'.cli = NoClient)
          /\ (result'.err # NoErr /\ scanStart.anyBootstrapErr) =>
               \E c \in Registered : IsBootstrapErrOf(result'.err, c)
          /\ result'.err = ErrNotConnected => ~scanStart.anyBootstrapErr
          /\ result'.err # NoErr =>
               \/ result'.err = ErrNotConnected
               \/ \E c \in Registered : IsBootstrapErrOf(result'.err, c)]_vars

C8_Witness ==
  /\ rpc = "done"
  /\ result.via = "random"
  /\ Cardinality(RegisteredKeys) >= 2
  /\ ConnectedRegistered = {}
  /\ \E c \in Registered : result.err = bootstrapErr[c] /\ IsBootstrapErrOf(result.err, c)

----------------------------------------------------------------------------
\* Claims about Cluster.Close

Failed(entry) == entry[2] # NoErr
CloseFailures == SelectSeq(closeLog, Failed)
CloseTargets == {closeLog[i][1] : i \in 1..Len(closeLog)}
FirstCloseFailure == IF CloseFailures = <<>> THEN NoErr ELSE CloseFailures[1][2]
LastCloseFailure == IF CloseFailures = <<>> THEN NoErr
                    ELSE CloseFailures[Len(CloseFailures)][2]

\* C9: Close is best-effort: when it returns it has called close on every
\* registered connection and on the floating client if unclaimed, whatever
\* closes failed before, the registry map is empty, and the error returned is
\* non-nil exactly when some close call failed.
C9_CloseBestEffort ==
  cpc = "done" =>
    /\ \A c \in regAtClose : closed[c]
    /\ CloseTargets = regAtClose
    /\ RegisteredKeys = {}
    /\ closeResult # NoErr <=> CloseFailures # <<>>

C9_Witness ==
  /\ cpc = "done"
  /\ Len(closeLog) >= 2
  /\ Failed(closeLog[1]) /\ ~Failed(closeLog[2])
  /\ closeResult # NoErr
  /\ RegisteredKeys = {}

\* C10 as stated: when more than one close call fails, Close returns the first
\* failure in the order the connections were closed.
C10_ReturnsFirstFailure ==
  cpc = "done" => closeResult = FirstCloseFailure

\* C10 as amended: Close returns the failure of the last close call that failed
\* in the order the connections were closed (each failure replaces the one
\* recorded before), and nil when none failed.
C10_ReturnsLastFailure ==
  cpc = "done" => closeResult = LastCloseFailure

C10_Witness ==
  /\ cpc = "done"
  /\ Len(CloseFailures) >= 2
  /\ closeResult = LastCloseFailure
  /\ closeResult # FirstCloseFailure

----------------------------------------------------------------------------
\* Claims about the locking discipline

\* C11: reader/writer exclusion over the shared state: every step that
\* inserts into or removes from the registry map, or claims the floating client,
\* is taken while no routing call is scanning the map under the read lock, and,
\* while Close iterates over the map, only Close itself changes it.
C11_ReaderWriterExclusion ==
  [][(connections' # connections \/ clusterClient' # clusterClient) =>
       /\ connectionsLock.readers = {}
       /\ cpc = "range" => closeLog' # closeLog]_vars

\* C12: no operation invokes a network call on a connection (buildConfig,
\* connect, selectBucket, close) while the caller holds connectionsLock or
\* clusterLock.
C12_NoNetworkCallUnderLock ==
  [][/\ closeLog' # closeLog => clusterLock # Closer
     /\ \A p \in Calls :
          (pc[p] \in {"connect", "selectBucket"} /\ pc'[p] = "insert") =>
             connectionsLock.writer # p]_vars

\* C13: publish before connect: when Bucket issues buildConfig and connect on
\* the connection it looked up or constructed, that connection is already in the
\* registry under the identity of the call.
C13_PublishBeforeConnect ==
  [][\A p \in Calls :
       (pc[p] = "connect" /\ pc'[p] = "insert") => connections[hash[p]] = cli[p]]_vars

----------------------------------------------------------------------------
\* Claims about SearchOptions.toMap

IsInvalidArguments(e) == e # NoErr /\ e[1] = "invalid arguments"
RawEmpty(raw) == raw = Nil \/ DOMAIN raw[1] = {}
SearchSucceeded == searchResult.done /\ searchResult.data # Nil

\* C14: toMap fails with an invalid-arguments error and returns no map whenever
\* ScanConsistency is non-zero and ConsistentWith is non-nil, whatever the
\* other options, Raw included, are.
C14_ExclusiveConsistencyRejected ==
  (searchResult.done /\ searchOpts.ScanConsistency # 0 /\ searchOpts.ConsistentWith # Nil) =>
     /\ searchResult.data = Nil
     /\ IsInvalidArguments(searchResult.err)

\* toMap has returned for options with both consistency mechanisms and a Raw
\* map with entries
C14_Witness ==
  /\ searchResult.done
  /\ searchOpts.ScanConsistency = SearchScanConsistencyNotBounded
  /\ searchOpts.ConsistentWith # Nil
  /\ ~RawEmpty(searchOpts.Raw)
  /\ searchResult.data = Nil

\* C15: with Raw empty, the returned map has a "ctl" key exactly when a
\* consistency mechanism was chosen: ctl.consistency.level is "not_bounded" for
\* ScanConsistency NotBounded, ctl.consistency is level "at_plus" with the
\* vectors of the token for ConsistentWith, and there is no ctl key otherwise.
C15_CtlReflectsConsistency ==
  (SearchSucceeded /\ RawEmpty(searchOpts.Raw)) =>
     LET data == searchResult.data[1]
     IN /\ ("ctl" \in DOMAIN data) <=>
             (searchOpts.ScanConsistency = SearchScanConsistencyNotBounded
                \/ searchOpts.ConsistentWith # Nil)
        /\ searchOpts.ScanConsistency = SearchScanConsistencyNotBounded =>
             data["ctl"] = MapV([k \in {"consistency"} |->
                                   MapV([l \in {"level"} |-> StrV("not_bounded")])])
        /\ searchOpts.ConsistentWith # Nil =>
             data["ctl"] = MapV([k \in {"consistency"} |->
                                   MapV([l \in {"level", "vectors"} |->
                                           IF l = "level" THEN StrV("at_plus")
                                           ELSE toSearchMutationState(searchOpts.ConsistentWith[1])])])

\* C16: whenever toMap succeeds the map has the keys size, from, explain, fields
\* and sort, also for zero-valued options; with Raw empty, "highlight" is
\* present only if Highlight was supplied and "facets" only if Facets was.
C16_FixedKeysAlwaysPresent ==
  SearchSucceeded =>
     LET data == searchResult.data[1]
     IN /\ {"size", "from", "explain", "fields", "sort"} \subseteq DOMAIN data
        /\ RawEmpty(searchOpts.Raw) =>
             /\ ("highlight" \in DOMAIN data) <=> (searchOpts.Highlight # Nil)
             /\ ("facets" \in DOMAIN data) <=> (searchOpts.Facets # Nil)

\* toMap has succeeded on options whose Limit, Skip, Explain, Fields and Sort
\* are at their zero values, with a Highlight and without Facets
C16_Witness ==
  /\ SearchSucceeded
  /\ searchOpts.Limit = 0 /\ searchOpts.Skip = 0 /\ ~searchOpts.Explain
  /\ searchOpts.Fields = Nil /\ searchOpts.Sort = Nil
  /\ searchOpts.Highlight # Nil /\ searchOpts.Facets = Nil
  /\ RawEmpty(searchOpts.Raw)
  /\ "highlight" \in DOMAIN searchResult.data[1]

\* C17: Raw takes precedence: for every key k of Raw the returned map holds
\* Raw[k] at k whatever the typed options computed for k, and every other key
\* has the value toMap computes without Raw.
C17_RawTakesPrecedence ==
  (SearchSucceeded /\ searchOpts.Raw # Nil) =>
     LET data == searchResult.data[1]
         raw == searchOpts.Raw[1]
         computed == SearchToMap([searchOpts EXCEPT !.Raw = Nil]).data[1]
     IN /\ \A k \in DOMAIN raw : k \in DOMAIN data /\ data[k] = raw[k]
        /\ \A k \in DOMAIN data \ DOMAIN raw : k \in DOMAIN computed /\ data[k] = computed[k]
        /\ DOMAIN computed \subseteq DOMAIN data

\* toMap has returned size = 999 for Raw = {size: 999} and Limit = 5
C17_Witness ==
  /\ SearchSucceeded
  /\ searchOpts.Limit = 5
  /\ searchOpts.Raw = Some([k \in {"size"} |-> IntV(999)])
  /\ searchResult.data[1]["size"] = IntV(999)

----------------------------------------------------------------------------
\* Claims about AnalyticsOptions.toMap

AnalyticsSucceeded == analyticsResult.done /\ analyticsResult.data # Nil

\* C18: raw overrides are merged last and shadow any computed key: for every key
\* k of Raw, "readonly", "statement", "priority" and "client_context_id"
\* included, the returned map holds Raw[k] at k.
C18_AnalyticsRawShadowsAll ==
  (AnalyticsSucceeded /\ analyticsCall.opts.Raw # Nil) =>
     LET data == analyticsResult.data[1]
         raw == analyticsCall.opts.Raw[1]
     IN \A k \in DOMAIN raw : k \in DOMAIN data /\ data[k] = raw[k]

\* C19: toMap fails with an invalid-arguments error and returns no map whenever
\* PositionalParameters and NamedParameters are both non-nil; with positional
\* parameters only the map has "args" set to them, and with neither it has no
\* "args" key (Raw not setting "args" itself).
C19_ExclusiveParametersRejected ==
  analyticsResult.done =>
     LET opts == analyticsCall.opts
         rawArgs == opts.Raw # Nil /\ <<"args">> \in DOMAIN opts.Raw[1]
     IN /\ (opts.PositionalParameters # Nil /\ opts.NamedParameters # Nil) =>
             /\ analyticsResult.data = Nil
             /\ IsInvalidArguments(analyticsResult.err)
        /\ (opts.PositionalParameters # Nil /\ opts.NamedParameters = Nil /\ ~rawArgs) =>
             /\ analyticsResult.data # Nil
             /\ <<"args">> \in DOMAIN analyticsResult.data[1]
             /\ analyticsResult.data[1][<<"args">>] = ListV(opts.PositionalParameters)
        /\ (opts.PositionalParameters = Nil /\ opts.NamedParameters = Nil /\ ~rawArgs) =>
             /\ analyticsResult.data # Nil
             /\ <<"args">> \notin DOMAIN analyticsResult.data[1]

\* the key a named parameter is to appear under: "$"+k, or k if it starts with "$"
Prefixed(k) == IF k # <<>> /\ k[1] = "$" THEN k ELSE <<"$">> \o k
\* the keys toMap writes apart from the named parameters
AnalyticsFixedKeys ==
  {<<"statement">>, <<"timeout">>, <<"client_context_id">>, <<"priority">>,
   <<"args">>, <<"readonly">>}
\* the named parameters with every key written in its prefixed form, for maps in
\* which no two keys have the same prefixed form
PrefixedNamed(named) ==
  [j \in {Prefixed(k) : k \in DOMAIN named} |->
     named[CHOOSE k \in DOMAIN named : Prefixed(k) = j]]
PrefixedOrder(order) == [i \in DOMAIN order |-> Prefixed(order[i])]
DistinctPrefixed(named) ==
  \A k, j \in DOMAIN named : Prefixed(k) = Prefixed(j) => k = j

\* C20 as stated: every named parameter with key k and value v appears in the
\* output under "$"+k if k does not start with "$" and under k itself if it
\* does, so that supplying the keys already prefixed gives the same map, and
\* no other key ("$$a", unprefixed "a") is emitted for a named parameter.
C20_NamedPrefixIdempotent ==
  (AnalyticsSucceeded /\ analyticsCall.opts.NamedParameters # Nil) =>
     LET data == analyticsResult.data[1]
         named == analyticsCall.opts.NamedParameters[1]
         rawKeys == IF analyticsCall.opts.Raw = Nil THEN {}
                    ELSE DOMAIN analyticsCall.opts.Raw[1]
     IN /\ \A k \in DOMAIN named :
             Prefixed(k) \in DOMAIN data /\ data[Prefixed(k)] = named[k]
        /\ DOMAIN data \subseteq
             AnalyticsFixedKeys \cup {Prefixed(k) : k \in DOMAIN named} \cup rawKeys

\* C20, amended: a named parameter with key k and value v appears under its
\* prefixed key with value v when no other named parameter has the same
\* prefixed key and Raw does not set that key; when two named parameters share
\* a prefixed key the output holds the value of one of them; supplying the
\* keys already prefixed gives the same map; no other key is emitted for a
\* named parameter.
C20_NamedPrefixIdempotentDistinct ==
  (AnalyticsSucceeded /\ analyticsCall.opts.NamedParameters # Nil) =>
     LET data == analyticsResult.data[1]
         opts == analyticsCall.opts
         named == opts.NamedParameters[1]
         rawKeys == IF opts.Raw = Nil THEN {} ELSE DOMAIN opts.Raw[1]
     IN /\ \A k \in DOMAIN named :
             /\ Prefixed(k) \in DOMAIN data
             /\ Prefixed(k) \notin rawKeys =>
                  \E j \in DOMAIN named :
                     Prefixed(j) = Prefixed(k) /\ data[Prefixed(k)] = named[j]
        /\ DistinctPrefixed(named) =>
             analyticsResult =
               AnalyticsToMap([opts EXCEPT !.NamedParameters = Some(PrefixedNamed(named))],
                              analyticsCall.statement, analyticsCall.uuid,
                              PrefixedOrder(analyticsCall.order))
        /\ DOMAIN data \subseteq
             AnalyticsFixedKeys \cup {Prefixed(k) : k \in DOMAIN named} \cup rawKeys

\* toMap has returned $a = 1 and no other parameter key for NamedParameters {a: 1}
C20_Witness ==
  /\ AnalyticsSucceeded
  /\ analyticsCall.opts.NamedParameters = Some([k \in {<<"a">>} |-> IntV(1)])
  /\ analyticsCall.opts.Raw = Nil
  /\ <<"$", "a">> \in DOMAIN analyticsResult.data[1]
  /\ analyticsResult.data[1][<<"$", "a">>] = IntV(1)
  /\ <<"a">> \notin DOMAIN analyticsResult.data[1]

----------------------------------------------------------------------------
\* Claims about maybeEnhanceCoreErr

RecognizedTypes ==
  {"gocbcore.KeyValueError", "gocbcore.ViewError", "gocbcore.N1QLError",
   "gocbcore.AnalyticsError", "gocbcore.HTTPError"}

\* C21: maybeEnhanceCoreErr returns an error of none of the five recognized
\* transport kinds as the identical value, and returns each recognized kind as
\* the corresponding domain kind (key-value as KeyValueError, view as ViewError,
\* query as QueryError, analytics as AnalyticsError, HTTP as HTTPError).
C21_PassThroughAndKinds ==
  enhancedErr.done =>
     /\ coreErr.type \notin RecognizedTypes => enhancedErr.err = coreErr
     /\ coreErr.type = "gocbcore.KeyValueError" => enhancedErr.err.type = "gocb.KeyValueError"
     /\ coreErr.type = "gocbcore.ViewError" => enhancedErr.err.type = "gocb.ViewError"
     /\ coreErr.type = "gocbcore.N1QLError" => enhancedErr.err.type = "gocb.QueryError"
     /\ coreErr.type = "gocbcore.AnalyticsError" => enhancedErr.err.type = "gocb.AnalyticsError"
     /\ coreErr.type = "gocbcore.HTTPError" => enhancedErr.err.type = "gocb.HTTPError"

\* maybeEnhanceCoreErr has returned a pointer to a key-value error, which no
\* assertion matches, as it was
C21_Witness ==
  /\ enhancedErr.done
  /\ coreErr.type = "*gocbcore.KeyValueError"
  /\ coreErr.RetryReasons # <<>>
  /\ enhancedErr.err = coreErr

\* C22: for each recognized transport error kind the enhanced error's
\* RetryAttempts equals the transport error's, and its RetryReasons is the
\* transport's list mapped element by element: same length, same order, each
\* element the domain reason of the same name.
C22_RetryMetadataPreserved ==
  (enhancedErr.done /\ coreErr.type \in RecognizedTypes) =>
     /\ enhancedErr.err.RetryAttempts = coreErr.RetryAttempts
     /\ Len(enhancedErr.err.RetryReasons) = Len(coreErr.RetryReasons)
     /\ \A i \in DOMAIN coreErr.RetryReasons :
          enhancedErr.err.RetryReasons[i] = <<"gocb.RetryReason", coreErr.RetryReasons[i][2]>>

\* an HTTP error with two different retry reasons and a non-zero attempt count
\* has been enhanced
C22_Witness ==
  /\ enhancedErr.done
  /\ coreErr.type = "gocbcore.HTTPError"
  /\ coreErr.RetryAttempts > 0
  /\ Len(coreErr.RetryReasons) >= 2
  /\ coreErr.RetryReasons[1] # coreErr.RetryReasons[2]
  /\ enhancedErr.err.type = "gocb.HTTPError"
  /\ enhancedErr.err.RetryAttempts = coreErr.RetryAttempts

----------------------------------------------------------------------------
\* Claims about the cluster client across Bucket, routing and Close

\* C23: after Close has returned no closed connection is reachable through the
\* shared state: neither the registry map nor the floating slot holds a closed
\* client, a clusterOrRandomClient call made afterwards does not return one and
\* a takeClusterClient made afterwards does not hand one out.
C23_NothingClosedReachable ==
  cpc = "done" =>
     /\ \A c \in Registered \cup FloatingSet : ~closed[c]
     /\ (rpc = "done" /\ result.cli # NoClient) => ~closed[result.cli]
     /\ \A p \in Calls : pc[p] = "selectBucket" => ~closed[cli[p]]

\* C24: in every state reached by Bucket calls and routing calls, if the
\* floating slot holds the cluster client then the registry map is empty.
C24_FloatingImpliesEmptyRegistry ==
  clusterClient # NoClient => RegisteredKeys = {}

\* the floating client has been claimed and registered, a second connection
\* has been registered too, and a routing call has run
C24_Witness ==
  /\ clusterClient = NoClient
  /\ Cardinality(RegisteredKeys) >= 2
  /\ ClusterCli \in Registered
  /\ rpc = "done"

\* C25: no routing gap during hand-off: a clusterOrRandomClient call running
\* concurrently with Bucket calls does not fail with "not connected to cluster"
\* while the cluster client is connected and supports cluster-level operations.
C25_NoRoutingGap ==
  (rpc = "done" /\ result.err = ErrNotConnected) =>
     ~(connected[ClusterCli] /\ ~closed[ClusterCli] /\ supportsGCCCP)

\* C26: no connection leaks past Close: once Close has returned, close has been
\* called on the client Connect constructed and on every client constructed by
\* a Bucket call that returned before Close started.
C26_NoLeakPastClose ==
  cpc = "done" => \A c \in {ClusterCli} \cup Created : closed[c]

============================================================================
